---- MODULE Spec2Model ----
(***************************************************************************)
(* The Ladon warden (ladon.go): lazy default wiring of the collaborators   *)
(* through the package-level lazyInitOnce, the IsAllowed entry point and   *)
(* the DoPoliciesAllow policy scan, as a state machine of goroutines that  *)
(* call into Ladon values.                                                 *)
(*                                                                         *)
(* Every interaction with a collaborator (Manager, Matcher, a policy's     *)
(* Conditions, AuditLogger, Metric) is appended, in program order, to the  *)
(* calling goroutine's trace.  The Metric sink is an external party: the   *)
(* method it was asked to run may return or may never return.              *)
(***************************************************************************)
EXTENDS Integers, Sequences, FiniteSets, TLC

\* ---------------------------------------------------------------- bounds
\* Longest candidate list of the single-caller specification Spec.
MaxPolicies == 3
\* Number of goroutines of the concurrent specification ConcSpec.
NumGoroutines == 2
\* Number of Ladon values of the concurrent specification ConcSpec.
NumInstances == 2

Goroutines == 1..NumGoroutines
Instances == 1..NumInstances

\* ------------------------------------------------------------ data model
\* The nil interface value / the zero value of a map lookup.
Nil == "nil"
\* A key that a map does not hold.
Absent == "absent"
NoErr == "noerr"
\* The value of the error return before the function has returned.
Running == "running"

Keys == {"k1", "k2"}

\* Pattern strings.  A pattern beginning with "[" is one the matcher cannot
\* compile.
Malformed == {"[a", "[s", "[r"}

\* Ladon struct: a collaborator field is Nil (unset), "user" (supplied by the
\* caller) or "default" (substituted by lazyInit).  Manager is never
\* substituted; it is taken as supplied.
Ladon(matcher, auditLogger, metric) ==
    [Manager |-> "user", Matcher |-> matcher, AuditLogger |-> auditLogger, Metric |-> metric]

\* Policy: the capability set GetActions, GetSubjects, GetResources,
\* GetConditions, AllowAccess.  Conditions maps every key to a condition kind
\* or to Absent.
Policy(actions, subjects, resources, conditions, effect) ==
    [Actions |-> actions, Subjects |-> subjects, Resources |-> resources,
     Conditions |-> conditions, Effect |-> effect]

AllowAccess(p) == p.Effect = "allow"

\* Request: Context maps every key to a value or to Absent.
Request(context) ==
    [Subject |-> "alice", Action |-> "read", Resource |-> "doc1", Context |-> context]

\* r.Context[key]: the zero value for a key the map does not hold.
ContextValue(r, key) ==
    IF r.Context[key] = Absent THEN Nil ELSE r.Context[key]

\* matcher.Matches(p, haystack, needle): an error for a pattern that does
\* not compile, else whether some pattern equals the needle.  An empty
\* haystack matches nothing.
Matches(p, haystack, needle) ==
    IF haystack \cap Malformed # {}
    THEN [ok |-> FALSE, err |-> CHOOSE h \in haystack \cap Malformed : TRUE]
    ELSE [ok |-> needle \in haystack, err |-> NoErr]

\* Condition.Fulfills(ctx, value, r): "StringEqual" holds for the string "v",
\* "Unset" holds for the zero value.  No error channel.
Fulfills(condition, value, r) ==
    CASE condition = "StringEqual" -> value = "v"
      [] condition = "Unset" -> value = Nil
      [] OTHER -> FALSE

\* The keys of p.GetConditions().
GetConditions(p) == {key \in Keys : p.Conditions[key] # Absent}

\* errors.WithStack(err): the same cause, with a stack attached.
WithStack(cause) == [cause |-> cause, stack |-> TRUE]
\* An error returned as it is.
Bare(cause) == [cause |-> cause, stack |-> FALSE]

ErrRequestDenied == "ErrRequestDenied"
ErrRequestForcefullyDenied == "ErrRequestForcefullyDenied"
\* The error of a failed Manager.FindRequestCandidates.
ErrManager == "ErrManager"

\* ------------------------------------------------------------ inputs
NoConditions == [key \in Keys |-> Absent]
BothEqual == [key \in Keys |-> "StringEqual"]
EqualAndUnset == [key \in Keys |-> IF key = "k1" THEN "StringEqual" ELSE "Unset"]
OnlyK1Equal == [key \in Keys |-> IF key = "k1" THEN "StringEqual" ELSE Absent]

\* The candidate policies of Spec: every way a policy can leave the scan
\* (each dimension matching, not matching or failing; conditions passing or
\* not; either effect), with later dimensions that would fail when reached.
PolicyPool ==
    { Policy({"read"}, {"alice"}, {"doc1"}, NoConditions, "allow"),
      Policy({"read", "write"}, {"alice"}, {"doc1"}, NoConditions, "deny"),
      Policy({"read"}, {"alice"}, {"doc1"}, BothEqual, "allow"),
      Policy({"read"}, {"alice", "bob"}, {"doc1"}, EqualAndUnset, "deny"),
      Policy({"write"}, {"[s"}, {"doc1"}, NoConditions, "deny"),
      Policy({"read"}, {"bob"}, {"[r"}, OnlyK1Equal, "allow"),
      Policy({"read"}, {"alice"}, {}, OnlyK1Equal, "deny"),
      Policy({"[a"}, {"alice"}, {"doc1"}, NoConditions, "allow"),
      Policy({"read"}, {"[s"}, {"doc1"}, NoConditions, "deny"),
      Policy({"read"}, {"alice"}, {"[r"}, NoConditions, "allow") }

\* The candidate policies of ConcSpec.
ConcPolicyPool ==
    { Policy({"read"}, {"alice"}, {"doc1"}, NoConditions, "allow"),
      Policy({"read"}, {"alice"}, {"doc1"}, NoConditions, "deny") }

Contexts ==
    { [key \in Keys |-> IF key = "k1" THEN "v" ELSE Absent],
      [key \in Keys |-> IF key = "k2" THEN "v" ELSE Absent] }

ConcContexts == { [key \in Keys |-> Absent] }

\* The candidate lists of ConcSpec.
ConcLists == {<<>>} \cup {<<p>> : p \in ConcPolicyPool}

\* A candidate list of ParSpec of which the outcome depends on the context:
\* an allow policy, a policy whose conditions fail, and a deny policy whose
\* conditions pass when k1 is "v" and k2 is not set (ErrRequestForcefullyDenied)
\* and fail otherwise (nil).
GatedList ==
    << Policy({"read"}, {"alice"}, {"doc1"}, NoConditions, "allow"),
       Policy({"read"}, {"alice"}, {"doc1"}, BothEqual, "allow"),
       Policy({"read"}, {"alice", "bob"}, {"doc1"}, EqualAndUnset, "deny") >>

\* The other candidate lists of ParSpec: a Matcher error on each dimension,
\* after an allow policy or a skipped policy or at once; a list of which
\* every policy is skipped.
ParLists ==
    { << Policy({"write"}, {"[s"}, {"doc1"}, NoConditions, "deny"),
         Policy({"read"}, {"alice"}, {"doc1"}, NoConditions, "allow"),
         Policy({"[a"}, {"alice"}, {"doc1"}, NoConditions, "allow") >>,
      << Policy({"read"}, {"bob"}, {"[r"}, OnlyK1Equal, "allow"),
         Policy({"read"}, {"alice"}, {}, OnlyK1Equal, "deny") >>,
      << Policy({"read"}, {"alice"}, {"doc1"}, NoConditions, "allow"),
         Policy({"read"}, {"[s"}, {"doc1"}, NoConditions, "deny") >>,
      << Policy({"read"}, {"alice"}, {"[r"}, NoConditions, "allow") >> }

\* The context of the calls of ParSpec with a list of ParLists.
ParContext == [key \in Keys |-> IF key = "k1" THEN "v" ELSE Absent]

SeqsUpTo(S, n) == UNION {[1..k -> S] : k \in 0..n}

\* How the caller constructed a Ladon value in Spec: nothing supplied, or
\* everything supplied.
UniformLadons == {Ladon(Nil, Nil, Nil), Ladon("user", "user", "user")}


\* ------------------------------------------------------------ state
VARIABLES
    lazyInitOnce,   \* the package-level sync.Once: its done flag and mutex holder
    ladon,          \* the Ladon values, by instance
    substitutions,  \* per instance, how many times the lazyInit body ran on it
    frame,          \* per goroutine, the activation of IsAllowed/DoPoliciesAllow
    trace,          \* per goroutine, the collaborator calls it made, in order
    sunk            \* per goroutine, the trace positions of the Metric calls
                    \* whose sink method has returned

vars == <<lazyInitOnce, ladon, substitutions, frame, trace, sunk>>

\* The value of err while the function has not returned, and a nil return.
NotReturned == Bare(Running)
ReturnedNil == Bare(Nil)

IdleFrame ==
    [pc |-> "idle", entry |-> "none", fn |-> "none", l |-> 1,
     r |-> Request([key \in Keys |-> Absent]), policies |-> <<>>, i |-> 1,
     allowed |-> FALSE, deciders |-> <<>>, err |-> NotReturned]

\* A collaborator call.  policy is the index of the candidate it is about
\* (0 for none); go tells a call started with a go statement.
Event(op, policy, arg, go) == [op |-> op, policy |-> policy, arg |-> arg, go |-> go]

MetricOps == {"RequestProcessingError", "RequestDeniedBy", "RequestNoMatch", "RequestAllowedBy"}
AuditOps == {"LogRejectedAccessRequest", "LogGrantedAccessRequest"}

\* The field of the Ladon value a call goes through ("Policy" for none).
Uses(op) ==
    CASE op = "Matches" -> "Matcher"
      [] op \in AuditOps -> "AuditLogger"
      [] op \in MetricOps -> "Metric"
      [] op = "FindRequestCandidates" -> "Manager"
      [] OTHER -> "Policy"

\* The position of the first call of events that goes through a nil field
\* of lad, or 0.  A method call on a nil interface value panics, also as the
\* operand of a go statement.
FirstNil(lad, events) ==
    LET bad == {k \in 1..Len(events) :
                   /\ Uses(events[k].op) \in DOMAIN lad
                   /\ lad[Uses(events[k].op)] = Nil}
    IN  IF bad = {} THEN 0 ELSE CHOOSE k \in bad : \A j \in bad : k <= j

\* Goroutine g makes the calls of events in order and reaches next, or
\* panics at the first call through a nil collaborator.
Perform(g, events, next) ==
    LET k == FirstNil(ladon[frame[g].l], events) IN
    /\ trace' = [trace EXCEPT ![g] =
                    @ \o (IF k = 0 THEN events ELSE SubSeq(events, 1, k - 1))]
    /\ frame' = [frame EXCEPT ![g] =
                    IF k = 0 THEN next ELSE [@ EXCEPT !.pc = "panic"]]

\* ------------------------------------------------------------ entry
\* A caller invokes l.IsAllowed(ctx, r).
CallIsAllowed(g, instances, contexts) ==
    /\ frame[g].pc = "idle"
    /\ \E l \in instances, c \in contexts :
          frame' = [frame EXCEPT ![g] =
                       [IdleFrame EXCEPT !.pc = "lazyInit", !.entry = "IsAllowed",
                                         !.fn = "IsAllowed", !.l = l, !.r = Request(c)]]
    /\ UNCHANGED <<lazyInitOnce, ladon, substitutions, trace, sunk>>

\* A caller invokes l.DoPoliciesAllow(ctx, r, policies).
CallDoPoliciesAllow(g, instances, contexts, lists) ==
    /\ frame[g].pc = "idle"
    /\ \E l \in instances, c \in contexts, ps \in lists :
          frame' = [frame EXCEPT ![g] =
                       [IdleFrame EXCEPT !.pc = "lazyInit", !.entry = "DoPoliciesAllow",
                                         !.fn = "DoPoliciesAllow", !.l = l,
                                         !.r = Request(c), !.policies = ps]]
    /\ UNCHANGED <<lazyInitOnce, ladon, substitutions, trace, sunk>>

\* ------------------------------------------------------------ lazyInit
\* Where the function goes on after l.lazyInit().
AfterLazyInit(fn) == IF fn = "IsAllowed" THEN "FindRequestCandidates" ELSE "loop"

\* OnceDo as it would be with a plain flag in place of the sync.Once: a
\* goroutine that reads the flag unset runs f without taking the mutex.
OnceDoPlainFlag(g) ==
    /\ frame[g].pc = "lazyInit"
    /\ frame' = [frame EXCEPT ![g].pc =
                    IF lazyInitOnce.done THEN AfterLazyInit(frame[g].fn) ELSE "f"]
    /\ UNCHANGED <<lazyInitOnce, ladon, substitutions, trace, sunk>>

\* lazyInitOnce.Do, fast path: the done flag is read; when set, Do returns.
OnceDo(g) ==
    /\ frame[g].pc = "lazyInit"
    /\ frame' = [frame EXCEPT ![g].pc =
                    IF lazyInitOnce.done THEN AfterLazyInit(frame[g].fn) ELSE "doSlow"]
    /\ UNCHANGED <<lazyInitOnce, ladon, substitutions, trace, sunk>>

\* lazyInitOnce.Do, slow path: the mutex is taken (a goroutine waits while
\* another holds it); done is read again; when set, Do unlocks and returns.
OnceDoSlow(g) ==
    /\ frame[g].pc = "doSlow"
    /\ lazyInitOnce.m = 0
    /\ IF lazyInitOnce.done
       THEN /\ frame' = [frame EXCEPT ![g].pc = AfterLazyInit(frame[g].fn)]
            /\ UNCHANGED lazyInitOnce
       ELSE /\ frame' = [frame EXCEPT ![g].pc = "f"]
            /\ lazyInitOnce' = [lazyInitOnce EXCEPT !.m = g]
    /\ UNCHANGED <<ladon, substitutions, trace, sunk>>

\* The field after "if l.X == nil { l.X = DefaultX }".
OrDefault(field) == IF field = Nil THEN "default" ELSE field

\* The function passed to lazyInitOnce.Do, on the receiver l of this call.
lazyInit(g) ==
    /\ frame[g].pc = "f"
    /\ LET l == frame[g].l IN
       /\ ladon' = [ladon EXCEPT ![l] =
                       [@ EXCEPT !.Matcher = OrDefault(@),
                                 !.AuditLogger = OrDefault(@),
                                 !.Metric = OrDefault(@)]]
       /\ substitutions' = [substitutions EXCEPT ![l] = @ + 1]
    /\ frame' = [frame EXCEPT ![g].pc = "unlock"]
    /\ UNCHANGED <<lazyInitOnce, trace, sunk>>

\* lazyInitOnce.Do, after f returned: done is set and the mutex released.
OnceDone(g) ==
    /\ frame[g].pc = "unlock"
    /\ lazyInitOnce' = [done |-> TRUE, m |-> 0]
    /\ frame' = [frame EXCEPT ![g].pc = AfterLazyInit(frame[g].fn)]
    /\ UNCHANGED <<ladon, substitutions, trace, sunk>>

\* ------------------------------------------------------------ IsAllowed
\* The two results of l.Manager.FindRequestCandidates(ctx, r).
Candidates(policies, err) == [policies |-> policies, err |-> err]

\* FindRequestCandidatesFails as it would be if the error of the lookup were
\* dropped and the scan went on with no candidates.
FindRequestCandidatesFailsGoesOn(g) ==
    /\ frame[g].pc = "FindRequestCandidates"
    /\ Perform(g, <<Event("FindRequestCandidates", 0, Candidates(<<>>, ErrManager), FALSE)>>,
               [frame[g] EXCEPT !.pc = "lazyInit", !.fn = "DoPoliciesAllow"])
    /\ UNCHANGED <<lazyInitOnce, ladon, substitutions, sunk>>

\* l.Manager.FindRequestCandidates fails: the error goes to Metric in a new
\* goroutine and is returned.  The call is recorded with what it returned.
FindRequestCandidatesFails(g) ==
    /\ frame[g].pc = "FindRequestCandidates"
    /\ Perform(g,
               <<Event("FindRequestCandidates", 0, Candidates(<<>>, ErrManager), FALSE),
                 Event("RequestProcessingError", 0, ErrManager, TRUE)>>,
               [frame[g] EXCEPT !.pc = "done", !.err = Bare(ErrManager)])
    /\ UNCHANGED <<lazyInitOnce, ladon, substitutions, sunk>>

\* l.Manager.FindRequestCandidates returns candidates: IsAllowed goes on as
\* l.DoPoliciesAllow(ctx, r, policies).
FindRequestCandidates(g, lists) ==
    /\ frame[g].pc = "FindRequestCandidates"
    /\ \E ps \in lists :
          Perform(g, <<Event("FindRequestCandidates", 0, Candidates(ps, NoErr), FALSE)>>,
                  [frame[g] EXCEPT !.pc = "lazyInit", !.fn = "DoPoliciesAllow",
                                   !.policies = ps])
    /\ UNCHANGED <<lazyInitOnce, ladon, substitutions, sunk>>

\* ------------------------------------------------------------ the scan
\* passesConditions as it would be if one fulfilled condition were enough.
passesSomeCondition(p, r) ==
    \/ GetConditions(p) = {}
    \/ \E key \in GetConditions(p) :
          Fulfills(p.Conditions[key], ContextValue(r, key), r)

\* passesConditions: every condition of p is fulfilled by r.Context[key].
passesConditions(p, r) ==
    \A key \in GetConditions(p) :
        Fulfills(p.Conditions[key], ContextValue(r, key), r)

\* The sets of keys whose condition passesConditions may have evaluated: the
\* range over the map is in no fixed order and stops at the first condition
\* that fails.
EvaluatedKeys(p, r) ==
    LET failing == {key \in GetConditions(p) :
                       ~Fulfills(p.Conditions[key], ContextValue(r, key), r)}
        passing == GetConditions(p) \ failing
    IN  IF failing = {} THEN {passing}
        ELSE {some \cup {key} : some \in SUBSET passing, key \in failing}

\* Branch as it would be if a resource that does not match were let through.
BranchIgnoresResource(p, r) ==
    LET am == Matches(p, p.Actions, r.Action)
        sm == Matches(p, p.Subjects, r.Subject)
        rm == Matches(p, p.Resources, r.Resource)
    IN  IF am.err # NoErr THEN "ActionError"
        ELSE IF ~am.ok THEN "ActionNoMatch"
        ELSE IF sm.err # NoErr THEN "SubjectError"
        ELSE IF ~sm.ok THEN "SubjectNoMatch"
        ELSE IF rm.err # NoErr THEN "ResourceError"
        ELSE IF ~passesConditions(p, r) THEN "ConditionsFail"
        ELSE IF ~AllowAccess(p) THEN "Deny"
        ELSE "Allow"

\* Branch as it would be if the subject were matched before the action.
BranchSubjectFirst(p, r) ==
    LET am == Matches(p, p.Actions, r.Action)
        sm == Matches(p, p.Subjects, r.Subject)
        rm == Matches(p, p.Resources, r.Resource)
    IN  IF sm.err # NoErr THEN "SubjectError"
        ELSE IF ~sm.ok THEN "SubjectNoMatch"
        ELSE IF am.err # NoErr THEN "ActionError"
        ELSE IF ~am.ok THEN "ActionNoMatch"
        ELSE IF rm.err # NoErr THEN "ResourceError"
        ELSE IF ~rm.ok THEN "ResourceNoMatch"
        ELSE IF ~passesConditions(p, r) THEN "ConditionsFail"
        ELSE IF ~AllowAccess(p) THEN "Deny"
        ELSE "Allow"

\* How one pass of the loop body leaves policy p: the checks in the order of
\* the code (action, subject, resource, conditions, effect).
Branch(p, r) ==
    LET am == Matches(p, p.Actions, r.Action)
        sm == Matches(p, p.Subjects, r.Subject)
        rm == Matches(p, p.Resources, r.Resource)
    IN  IF am.err # NoErr THEN "ActionError"
        ELSE IF ~am.ok THEN "ActionNoMatch"
        ELSE IF sm.err # NoErr THEN "SubjectError"
        ELSE IF ~sm.ok THEN "SubjectNoMatch"
        ELSE IF rm.err # NoErr THEN "ResourceError"
        ELSE IF ~rm.ok THEN "ResourceNoMatch"
        ELSE IF ~passesConditions(p, r) THEN "ConditionsFail"
        ELSE IF ~AllowAccess(p) THEN "Deny"
        ELSE "Allow"

\* The first n Matcher calls of the loop body for candidate i.
MatcherCalls(i, n) ==
    SubSeq(<<Event("Matches", i, "Actions", FALSE),
             Event("Matches", i, "Subjects", FALSE),
             Event("Matches", i, "Resources", FALSE)>>, 1, n)

\* The Condition calls of passesConditions for candidate i.
ConditionCalls(i, keys) ==
    IF keys = {} THEN <<>> ELSE <<Event("Fulfills", i, keys, FALSE)>>

\* go l.Metric.RequestProcessingError(*r, p, err)
ProcessingErrorCall(i, err) == <<Event("RequestProcessingError", i, err, TRUE)>>

\* The frame after "return err" / "return errors.WithStack(err)".
Return(f, err) == [f EXCEPT !.pc = "done", !.err = err]

\* The frame after "continue".
Continue(f) == [f EXCEPT !.i = @ + 1]

\* Deny as it would be if the deny branch went on to the next candidate.
DenyGoesOn(f, p) ==
    [f EXCEPT !.deciders = Append(@, p), !.i = @ + 1]

\* Deny as it would be if a deny policy won only while no allow policy had
\* fully matched.
DenyUnlessAllowed(f, p) ==
    IF f.allowed
    THEN [f EXCEPT !.i = @ + 1]
    ELSE [f EXCEPT !.deciders = Append(@, p), !.pc = "done",
                   !.err = WithStack(ErrRequestForcefullyDenied)]

\* The frame after the deny branch: the policy is appended to deciders and
\* ErrRequestForcefullyDenied is returned.
Deny(f, p) ==
    [f EXCEPT !.deciders = Append(@, p), !.pc = "done",
              !.err = WithStack(ErrRequestForcefullyDenied)]

\* DenyCalls as it would be if the deny branch told the audit logger twice.
DenyCallsTwice(f, p) ==
    <<Event("LogRejectedAccessRequest", 0,
            [policies |-> f.policies, deciders |-> Append(f.deciders, p)], FALSE),
      Event("LogRejectedAccessRequest", 0,
            [policies |-> f.policies, deciders |-> Append(f.deciders, p)], FALSE),
      Event("RequestDeniedBy", f.i, p, TRUE)>>

\* DenyCalls as it would be if the audit logger were told before the
\* denying policy is appended to deciders.
DenyCallsBeforeAppend(f, p) ==
    <<Event("LogRejectedAccessRequest", 0,
            [policies |-> f.policies, deciders |-> f.deciders], FALSE),
      Event("RequestDeniedBy", f.i, p, TRUE)>>

\* The calls of the deny branch, after deciders = append(deciders, p).
DenyCalls(f, p) ==
    <<Event("LogRejectedAccessRequest", 0,
            [policies |-> f.policies, deciders |-> Append(f.deciders, p)], FALSE),
      Event("RequestDeniedBy", f.i, p, TRUE)>>

\* Allow as it would be if the policy were not appended to deciders.
AllowNoAppend(f, p) ==
    [f EXCEPT !.allowed = TRUE, !.i = @ + 1]

\* Allow as it would be if deciders were one variable shared by all calls:
\* the policy is appended to the longest list any call has built.
AllowShared(f, p) ==
    LET h == CHOOSE h \in Goroutines :
                 \A k \in Goroutines : Len(frame[k].deciders) <= Len(frame[h].deciders)
    IN  [f EXCEPT !.allowed = TRUE, !.deciders = Append(frame[h].deciders, p), !.i = @ + 1]

\* The frame after "allowed = true; deciders = append(deciders, p)".
Allow(f, p) ==
    [f EXCEPT !.allowed = TRUE, !.deciders = Append(@, p), !.i = @ + 1]

\* Denied as it would be if the default were to allow.
DeniedAllows(f) == Return(f, ReturnedNil)

\* The frame after the default-deny exit.
Denied(f) == Return(f, WithStack(ErrRequestDenied))

\* DeniedCalls as it would be if the default-deny exit told the audit
\* logger in a new goroutine, like Metric.
DeniedCallsLogsAside(f) ==
    <<Event("RequestNoMatch", 0, Nil, TRUE),
      Event("LogRejectedAccessRequest", 0,
            [policies |-> f.policies, deciders |-> f.deciders], TRUE)>>

\* The calls of the default-deny exit: Metric first, then the audit logger.
DeniedCalls(f) ==
    <<Event("RequestNoMatch", 0, Nil, TRUE),
      Event("LogRejectedAccessRequest", 0,
            [policies |-> f.policies, deciders |-> f.deciders], FALSE)>>

\* GrantedCalls as it would be if the default-deny exit fell through to the
\* granted exit.
GrantedCallsAfterNoMatch(f) ==
    <<Event("RequestNoMatch", 0, Nil, TRUE),
      Event("LogGrantedAccessRequest", 0,
            [policies |-> f.policies, deciders |-> f.deciders], FALSE),
      Event("RequestAllowedBy", 0, f.deciders, FALSE)>>

\* The calls of the granted exit: the audit logger, then Metric, called in
\* the goroutine of the caller.
GrantedCalls(f) ==
    <<Event("LogGrantedAccessRequest", 0,
            [policies |-> f.policies, deciders |-> f.deciders], FALSE),
      Event("RequestAllowedBy", 0, f.deciders, FALSE)>>

\* Goroutine g is at the top of the loop body with a candidate left.
InLoop(g) ==
    /\ frame[g].pc = "loop"
    /\ frame[g].i <= Len(frame[g].policies)

\* The candidate of this pass of the loop.
Candidate(g) == frame[g].policies[frame[g].i]

\* The Matcher fails on the actions of the candidate.
ActionError(g) ==
    /\ InLoop(g)
    /\ Branch(Candidate(g), frame[g].r) = "ActionError"
    /\ LET err == Matches(Candidate(g), Candidate(g).Actions, frame[g].r.Action).err IN
       Perform(g, MatcherCalls(frame[g].i, 1) \o ProcessingErrorCall(frame[g].i, err),
               Return(frame[g], WithStack(err)))
    /\ UNCHANGED <<lazyInitOnce, ladon, substitutions, sunk>>

\* The actions of the candidate do not match.
ActionNoMatch(g) ==
    /\ InLoop(g)
    /\ Branch(Candidate(g), frame[g].r) = "ActionNoMatch"
    /\ Perform(g, MatcherCalls(frame[g].i, 1), Continue(frame[g]))
    /\ UNCHANGED <<lazyInitOnce, ladon, substitutions, sunk>>

\* SubjectError as it would be if the scan went on after the failure.
SubjectErrorGoesOn(g) ==
    /\ InLoop(g)
    /\ Branch(Candidate(g), frame[g].r) = "SubjectError"
    /\ LET err == Matches(Candidate(g), Candidate(g).Subjects, frame[g].r.Subject).err IN
       Perform(g, MatcherCalls(frame[g].i, 2) \o ProcessingErrorCall(frame[g].i, err),
               Continue(frame[g]))
    /\ UNCHANGED <<lazyInitOnce, ladon, substitutions, sunk>>

\* The Matcher fails on the subjects of the candidate: the error is returned
\* as the Matcher gave it.
SubjectError(g) ==
    /\ InLoop(g)
    /\ Branch(Candidate(g), frame[g].r) = "SubjectError"
    /\ LET err == Matches(Candidate(g), Candidate(g).Subjects, frame[g].r.Subject).err IN
       Perform(g, MatcherCalls(frame[g].i, 2) \o ProcessingErrorCall(frame[g].i, err),
               Return(frame[g], Bare(err)))
    /\ UNCHANGED <<lazyInitOnce, ladon, substitutions, sunk>>

\* The subjects of the candidate do not match.
SubjectNoMatch(g) ==
    /\ InLoop(g)
    /\ Branch(Candidate(g), frame[g].r) = "SubjectNoMatch"
    /\ Perform(g, MatcherCalls(frame[g].i, 2), Continue(frame[g]))
    /\ UNCHANGED <<lazyInitOnce, ladon, substitutions, sunk>>

\* ResourceError as it would be if a failure of the Matcher were taken for
\* a resource that does not match.
ResourceErrorSkips(g) ==
    /\ InLoop(g)
    /\ Branch(Candidate(g), frame[g].r) = "ResourceError"
    /\ Perform(g, MatcherCalls(frame[g].i, 3), Continue(frame[g]))
    /\ UNCHANGED <<lazyInitOnce, ladon, substitutions, sunk>>

\* The Matcher fails on the resources of the candidate.
ResourceError(g) ==
    /\ InLoop(g)
    /\ Branch(Candidate(g), frame[g].r) = "ResourceError"
    /\ LET err == Matches(Candidate(g), Candidate(g).Resources, frame[g].r.Resource).err IN
       Perform(g, MatcherCalls(frame[g].i, 3) \o ProcessingErrorCall(frame[g].i, err),
               Return(frame[g], WithStack(err)))
    /\ UNCHANGED <<lazyInitOnce, ladon, substitutions, sunk>>

\* The resources of the candidate do not match.
ResourceNoMatch(g) ==
    /\ InLoop(g)
    /\ Branch(Candidate(g), frame[g].r) = "ResourceNoMatch"
    /\ Perform(g, MatcherCalls(frame[g].i, 3), Continue(frame[g]))
    /\ UNCHANGED <<lazyInitOnce, ladon, substitutions, sunk>>

\* A condition of the candidate is not fulfilled.
ConditionsFail(g) ==
    /\ InLoop(g)
    /\ Branch(Candidate(g), frame[g].r) = "ConditionsFail"
    /\ \E keys \in EvaluatedKeys(Candidate(g), frame[g].r) :
          Perform(g, MatcherCalls(frame[g].i, 3) \o ConditionCalls(frame[g].i, keys),
                  Continue(frame[g]))
    /\ UNCHANGED <<lazyInitOnce, ladon, substitutions, sunk>>

\* The candidate applies and its effect is deny.
DenyPolicy(g) ==
    /\ InLoop(g)
    /\ Branch(Candidate(g), frame[g].r) = "Deny"
    /\ \E keys \in EvaluatedKeys(Candidate(g), frame[g].r) :
          Perform(g, MatcherCalls(frame[g].i, 3) \o ConditionCalls(frame[g].i, keys)
                        \o DenyCalls(frame[g], Candidate(g)),
                  Deny(frame[g], Candidate(g)))
    /\ UNCHANGED <<lazyInitOnce, ladon, substitutions, sunk>>

\* The candidate applies and its effect is allow.
AllowPolicy(g) ==
    /\ InLoop(g)
    /\ Branch(Candidate(g), frame[g].r) = "Allow"
    /\ \E keys \in EvaluatedKeys(Candidate(g), frame[g].r) :
          Perform(g, MatcherCalls(frame[g].i, 3) \o ConditionCalls(frame[g].i, keys),
                  Allow(frame[g], Candidate(g)))
    /\ UNCHANGED <<lazyInitOnce, ladon, substitutions, sunk>>

\* The loop is over and no policy allowed the request.
RequestDenied(g) ==
    /\ frame[g].pc = "loop"
    /\ frame[g].i > Len(frame[g].policies)
    /\ ~frame[g].allowed
    /\ Perform(g, DeniedCalls(frame[g]), Denied(frame[g]))
    /\ UNCHANGED <<lazyInitOnce, ladon, substitutions, sunk>>

\* The loop is over and a policy allowed the request: the audit logger is
\* told, and l.Metric.RequestAllowedBy is called; the goroutine is in that
\* call until the sink returns.
RequestGranted(g) ==
    /\ frame[g].pc = "loop"
    /\ frame[g].i > Len(frame[g].policies)
    /\ frame[g].allowed
    /\ Perform(g, GrantedCalls(frame[g]), [frame[g] EXCEPT !.pc = "RequestAllowedBy"])
    /\ UNCHANGED <<lazyInitOnce, ladon, substitutions, sunk>>

\* l.Metric.RequestAllowedBy has returned: DoPoliciesAllow returns nil.
ReturnNil(g) ==
    /\ frame[g].pc = "RequestAllowedBy"
    /\ Len(trace[g]) \in sunk[g]
    /\ frame' = [frame EXCEPT ![g] = Return(@, ReturnedNil)]
    /\ UNCHANGED <<lazyInitOnce, ladon, substitutions, trace, sunk>>

\* The Metric sink returns from one of the calls made to it.  Nothing
\* obliges it to.
MetricReturns(g) ==
    /\ \E n \in 1..Len(trace[g]) :
          /\ trace[g][n].op \in MetricOps
          /\ n \notin sunk[g]
          /\ sunk' = [sunk EXCEPT ![g] = @ \cup {n}]
    /\ UNCHANGED <<lazyInitOnce, ladon, substitutions, frame, trace>>

\* ------------------------------------------------------------ the scan, as a function
\* The frame after one pass of the loop body.
Pass(f) ==
    LET p == f.policies[f.i]
        b == Branch(p, f.r)
    IN  CASE b = "ActionError" ->
                Return(f, WithStack(Matches(p, p.Actions, f.r.Action).err))
          [] b = "SubjectError" ->
                Return(f, Bare(Matches(p, p.Subjects, f.r.Subject).err))
          [] b = "ResourceError" ->
                Return(f, WithStack(Matches(p, p.Resources, f.r.Resource).err))
          [] b = "Deny" -> Deny(f, p)
          [] b = "Allow" -> Allow(f, p)
          [] OTHER -> Continue(f)

\* The frame in which the loop and the exit after it leave f.
RECURSIVE Scan(_)
Scan(f) ==
    IF f.pc # "loop" THEN f
    ELSE IF f.i <= Len(f.policies) THEN Scan(Pass(f))
    ELSE IF f.allowed THEN Return(f, ReturnedNil)
    ELSE Denied(f)

\* The frame in which DoPoliciesAllow(ctx, r, policies) returns: its err and
\* the deciders it built.
DoPoliciesAllow(r, policies) ==
    Scan([IdleFrame EXCEPT !.pc = "loop", !.fn = "DoPoliciesAllow",
                           !.r = r, !.policies = policies])

\* ------------------------------------------------------------ specifications
\* A step of goroutine g inside l.lazyInit().
Wiring(g) ==
    \/ OnceDo(g)
    \/ OnceDoSlow(g)
    \/ lazyInit(g)
    \/ OnceDone(g)

\* A pass of the loop body that ends the scan with a Matcher error or
\* skips the candidate.
Skips(g) ==
    \/ ActionError(g)
    \/ ActionNoMatch(g)
    \/ SubjectError(g)
    \/ SubjectNoMatch(g)
    \/ ResourceError(g)
    \/ ResourceNoMatch(g)
    \/ ConditionsFail(g)

\* A pass of the loop body for a candidate that applies, and the exits of
\* DoPoliciesAllow after the loop.
Decides(g) ==
    \/ DenyPolicy(g)
    \/ AllowPolicy(g)
    \/ RequestDenied(g)
    \/ RequestGranted(g)
    \/ ReturnNil(g)

InitState(ladons) ==
    /\ lazyInitOnce = [done |-> FALSE, m |-> 0]
    /\ ladon \in [Instances -> ladons]
    /\ substitutions = [l \in Instances |-> 0]
    /\ frame = [g \in Goroutines |-> IdleFrame]
    /\ trace = [g \in Goroutines |-> <<>>]
    /\ sunk = [g \in Goroutines |-> {}]

\* Spec: one goroutine makes one call on the one Ladon value of the process.
Lists == SeqsUpTo(PolicyPool, MaxPolicies)

Init ==
    /\ InitState(UniformLadons)
    /\ \A l \in Instances : ladon[l] = ladon[1]

Next ==
    \/ CallIsAllowed(1, {1}, Contexts)
    \/ CallDoPoliciesAllow(1, {1}, Contexts, Lists)
    \/ Wiring(1)
    \/ FindRequestCandidatesFails(1)
    \/ FindRequestCandidates(1, Lists)
    \/ Skips(1)
    \/ Decides(1)
    \/ MetricReturns(1)

Spec == Init /\ [][Next]_vars

\* ConcSpec: goroutines call concurrently on several Ladon values, none of
\* which was given a collaborator.  The candidates all apply, so no pass of
\* the loop skips.
ConcInit == InitState({Ladon(Nil, Nil, Nil)})

ConcNext ==
    \E g \in Goroutines :
        \/ CallIsAllowed(g, Instances, ConcContexts)
        \/ CallDoPoliciesAllow(g, Instances, ConcContexts, ConcLists)
        \/ Wiring(g)
        \/ FindRequestCandidatesFails(g)
        \/ FindRequestCandidates(g, ConcLists)
        \/ Decides(g)
        \/ MetricReturns(g)

ConcSpec == ConcInit /\ [][ConcNext]_vars

\* ParSpec: goroutines call DoPoliciesAllow concurrently on one Ladon value,
\* each with a request and a candidate list of its own.
ParNext ==
    \E g \in Goroutines :
        \/ CallDoPoliciesAllow(g, {1}, Contexts, {GatedList})
        \/ CallDoPoliciesAllow(g, {1}, {ParContext}, ParLists)
        \/ Wiring(g)
        \/ Skips(g)
        \/ Decides(g)
        \/ MetricReturns(g)

ParSpec == Init /\ [][ParNext]_vars

\* ------------------------------------------------------------ vocabulary
\* The terms in which the properties below are stated, defined on the
\* inputs of a call and on what it left behind, apart from the steps above.
\* The Matcher says that the patterns of p match r on all three dimensions.
PatternsMatch(p, r) ==
    /\ Matches(p, p.Actions, r.Action).ok
    /\ Matches(p, p.Subjects, r.Subject).ok
    /\ Matches(p, p.Resources, r.Resource).ok

\* Every condition of p is fulfilled by the context of r, an absent key
\* giving the zero value.
ConditionsHold(p, r) ==
    \A key \in Keys :
        p.Conditions[key] # Absent =>
            Fulfills(p.Conditions[key],
                     IF r.Context[key] = Absent THEN Nil ELSE r.Context[key], r)

\* p fully matches r: action, subject and resource match and all conditions
\* pass.
FullyMatches(p, r) == PatternsMatch(p, r) /\ ConditionsHold(p, r)

\* The error of the Matcher call that fails when p is examined in the order
\* action, subject, resource, or NoErr when none fails.
MatchError(p, r) ==
    LET am == Matches(p, p.Actions, r.Action)
        sm == Matches(p, p.Subjects, r.Subject)
        rm == Matches(p, p.Resources, r.Resource)
    IN  IF am.err # NoErr THEN am.err
        ELSE IF ~am.ok THEN NoErr
        ELSE IF sm.err # NoErr THEN sm.err
        ELSE IF ~sm.ok THEN NoErr
        ELSE rm.err

\* The Matcher reports, when p is examined, that a dimension does not match.
NoMatch(p, r) ==
    /\ MatchError(p, r) = NoErr
    /\ ~PatternsMatch(p, r)

FullDeny(p, r) == FullyMatches(p, r) /\ p.Effect = "deny"
FullAllow(p, r) == FullyMatches(p, r) /\ p.Effect = "allow"

\* The positions of ps that satisfy Test.
Positions(ps, Test(_)) == {j \in 1..Len(ps) : Test(ps[j])}

\* The least element of a non-empty set of numbers.
Min(S) == CHOOSE k \in S : \A j \in S : k <= j

\* The scan of ps reaches a candidate on which a Matcher call fails: no
\* earlier candidate fully matches with effect deny.
FailureReached(ps, r) ==
    \E j \in 1..Len(ps) :
        /\ MatchError(ps[j], r) # NoErr
        /\ \A k \in 1..(j - 1) : ~FullDeny(ps[k], r)

\* DoPoliciesAllow has returned in goroutine g (also when IsAllowed called it).
Returned(g) == frame[g].pc = "done" /\ frame[g].fn = "DoPoliciesAllow"

\* The calls of trace t whose op is in ops.
CallsOf(t, ops) == {n \in 1..Len(t) : t[n].op \in ops}

\* DoPoliciesAllow returned, in goroutine g, the error of a Matcher call.
MatcherFailed(g) == frame[g].err.cause \in Malformed

\* The audit-log calls goroutine g has made.
AuditCalls(g) == CallsOf(trace[g], AuditOps)

\* ------------------------------------------------------------ C1
\* C1 as stated: whenever DoPoliciesAllow has returned for a candidate list
\* that holds a fully-matching deny policy and a fully-matching allow policy,
\* it returned ErrRequestForcefullyDenied.
C1_DenyOverride_AsStated ==
    \A g \in Goroutines :
        LET f == frame[g]
            Denies(p) == FullDeny(p, f.r)
            Allows(p) == FullAllow(p, f.r)
        IN  ( /\ Returned(g)
              /\ Positions(f.policies, Denies) # {}
              /\ Positions(f.policies, Allows) # {} )
            => f.err.cause = ErrRequestForcefullyDenied

\* C1, amended: for a candidate list that holds a fully-matching deny policy
\* and a fully-matching allow policy, in any order, DoPoliciesAllow never
\* returns nil; it returns ErrRequestForcefullyDenied whenever the Matcher
\* fails on no candidate before the first fully-matching deny policy, and the
\* error of the Matcher otherwise.
C1_DenyOverride ==
    \A g \in Goroutines :
        LET f == frame[g]
            Denies(p) == FullDeny(p, f.r)
            Allows(p) == FullAllow(p, f.r)
            Fails(p) == MatchError(p, f.r) # NoErr
        IN  ( /\ Returned(g)
              /\ Positions(f.policies, Denies) # {}
              /\ Positions(f.policies, Allows) # {} )
            => /\ f.err.cause # Nil
               /\ IF \A j \in Positions(f.policies, Fails) :
                        j > Min(Positions(f.policies, Denies))
                  THEN f.err = WithStack(ErrRequestForcefullyDenied)
                  ELSE MatcherFailed(g)

\* A fully-matching allow policy stands before a fully-matching deny policy
\* and DoPoliciesAllow returned ErrRequestForcefullyDenied.
C1_Witness ==
    \E g \in Goroutines :
        LET f == frame[g] IN
        /\ Returned(g)
        /\ f.err.cause = ErrRequestForcefullyDenied
        /\ \E j, k \in 1..Len(f.policies) :
              j < k /\ FullAllow(f.policies[j], f.r) /\ FullDeny(f.policies[k], f.r)

\* ------------------------------------------------------------ C2
\* C2: when DoPoliciesAllow has returned and no Matcher call failed, it
\* returned nil exactly if some candidate fully matches with effect allow
\* and none fully matches with effect deny; then LogGrantedAccessRequest
\* was called with, as deciders, the fully-matching candidates in input
\* order.
C2_GrantCondition ==
    \A g \in Goroutines :
        LET f == frame[g]
            Denies(p) == FullDeny(p, f.r)
            Allows(p) == FullAllow(p, f.r)
            Full(p) == FullyMatches(p, f.r)
        IN  (Returned(g) /\ ~FailureReached(f.policies, f.r))
            => /\ (f.err = ReturnedNil)
                  <=> ( /\ Positions(f.policies, Allows) # {}
                        /\ Positions(f.policies, Denies) = {} )
               /\ (f.err = ReturnedNil)
                  => \E n \in CallsOf(trace[g], {"LogGrantedAccessRequest"}) :
                        /\ trace[g][n].arg.policies = f.policies
                        /\ trace[g][n].arg.deciders = SelectSeq(f.policies, Full)

\* DoPoliciesAllow returned nil for a list of two fully-matching allow
\* policies with a candidate between them that does not apply.
C2_Witness ==
    \E g \in Goroutines :
        LET f == frame[g] IN
        /\ Returned(g)
        /\ f.err = ReturnedNil
        /\ Len(f.policies) = 3
        /\ FullAllow(f.policies[1], f.r)
        /\ ~FullyMatches(f.policies[2], f.r)
        /\ FullAllow(f.policies[3], f.r)

\* ------------------------------------------------------------ C3
\* C3: when DoPoliciesAllow has returned for a candidate list (empty or
\* not) of which no policy fully matches and on which no Matcher call fails,
\* it returned ErrRequestDenied and called LogRejectedAccessRequest with the
\* full candidate list and no deciders.
C3_DefaultDeny ==
    \A g \in Goroutines :
        LET f == frame[g]
            Full(p) == FullyMatches(p, f.r)
            Fails(p) == MatchError(p, f.r) # NoErr
        IN  ( /\ Returned(g)
              /\ Positions(f.policies, Full) = {}
              /\ Positions(f.policies, Fails) = {} )
            => /\ f.err = WithStack(ErrRequestDenied)
               /\ \E n \in CallsOf(trace[g], {"LogRejectedAccessRequest"}) :
                     /\ trace[g][n].arg.policies = f.policies
                     /\ trace[g][n].arg.deciders = <<>>

\* DoPoliciesAllow returned ErrRequestDenied for a list of three candidates,
\* each skipped.
C3_Witness ==
    \E g \in Goroutines :
        LET f == frame[g] IN
        /\ Returned(g)
        /\ f.err.cause = ErrRequestDenied
        /\ Len(f.policies) = 3
        /\ \A j \in 1..3 : ~FullyMatches(f.policies[j], f.r)

InCall(g) == frame[g].pc \notin {"idle", "done", "panic"}

\* A step goroutine g takes by itself in Spec.
OwnStep(g) ==
    \/ Wiring(g)
    \/ FindRequestCandidatesFails(g)
    \/ FindRequestCandidates(g, Lists)
    \/ Skips(g)
    \/ Decides(g)

\* C5: Metric never holds up the decision: a goroutine inside IsAllowed or
\* DoPoliciesAllow always has a step of its own to take, whether or not a
\* method of the Metric sink has returned.
C5_MetricNeverBlocks ==
    \A g \in Goroutines : InCall(g) => ENABLED OwnStep(g)

\* ------------------------------------------------------------ C6
\* The call of goroutine g has passed l.lazyInit().
PastLazyInit(g) == frame[g].pc \notin {"idle", "lazyInit", "doSlow", "f", "unlock"}

\* The three collaborators of Ladon value l are set.
Wired(l) ==
    /\ ladon[l].Matcher # Nil
    /\ ladon[l].AuditLogger # Nil
    /\ ladon[l].Metric # Nil

\* C6: for any number of Ladon values used in any interleaving, once a call
\* on a Ladon value has passed lazyInit the three collaborators of that value
\* are set, and no call goes through an unset collaborator.
C6_DefaultWiring ==
    \A g \in Goroutines :
        PastLazyInit(g) => Wired(frame[g].l) /\ frame[g].pc # "panic"

\* ------------------------------------------------------------ C7
\* Every call made so far is on Ladon value l.
OnlyOn(l) == \A g \in Goroutines : frame[g].pc # "idle" => frame[g].l = l

\* C7: when all the calls, made concurrently, are on one Ladon value that
\* was given no collaborator, the substitution body runs at most once, and a
\* call that has passed lazyInit finds that it ran exactly once and is over
\* (no goroutine is inside it, every collaborator is set).
C7_IdempotentDefaults ==
    \A l \in Instances :
        OnlyOn(l)
        => /\ substitutions[l] <= 1
           /\ \A g \in Goroutines :
                 PastLazyInit(g)
                 => /\ substitutions[l] = 1
                    /\ lazyInitOnce.done
                    /\ \A h \in Goroutines : frame[h].pc \notin {"f", "unlock"}
                    /\ Wired(l)

\* All goroutines called on the same Ladon value and each has passed
\* lazyInit, after one run of the substitution body.
C7_Witness ==
    \E l \in Instances :
        /\ OnlyOn(l)
        /\ substitutions[l] = 1
        /\ \A g \in Goroutines : PastLazyInit(g) /\ frame[g].pc # "panic"

\* ------------------------------------------------------------ C8
\* C8: when the scan reaches a candidate N on which a Matcher call fails (no
\* earlier candidate makes the Matcher fail or fully matches with effect
\* deny), DoPoliciesAllow returns the error of that call, whether it was the
\* action, the subject or the resource match, has dispatched exactly one
\* RequestProcessingError, for candidate N with that error, and has made no
\* Matcher or Condition call for a candidate after N.
C8_MatcherErrorShortCircuit ==
    \A g \in Goroutines :
        LET f == frame[g]
            Fails(p) == MatchError(p, f.r) # NoErr
            Denies(p) == FullDeny(p, f.r)
        IN  ( /\ Returned(g)
              /\ Positions(f.policies, Fails) # {}
              /\ \A j \in Positions(f.policies, Denies) :
                    j > Min(Positions(f.policies, Fails)) )
            => LET N == Min(Positions(f.policies, Fails)) IN
               /\ f.err.cause = MatchError(f.policies[N], f.r)
               /\ Cardinality(CallsOf(trace[g], {"RequestProcessingError"})) = 1
               /\ \A n \in CallsOf(trace[g], {"RequestProcessingError"}) :
                     /\ trace[g][n].policy = N
                     /\ trace[g][n].arg = MatchError(f.policies[N], f.r)
                     /\ trace[g][n].go
               /\ \A n \in CallsOf(trace[g], {"Matches", "Fulfills"}) :
                     trace[g][n].policy <= N

\* DoPoliciesAllow returned the error of the subject match of the second of
\* three candidates, the first being a fully-matching allow policy.
C8_Witness ==
    \E g \in Goroutines :
        LET f == frame[g] IN
        /\ Returned(g)
        /\ Len(f.policies) = 3
        /\ FullAllow(f.policies[1], f.r)
        /\ f.i = 2
        /\ f.err = Bare("[s")

\* ------------------------------------------------------------ C9
\* ps without its j-th element.
Remove(ps, j) == SubSeq(ps, 1, j - 1) \o SubSeq(ps, j + 1, Len(ps))

\* The call of goroutine g returned, and handed to the audit logger, what
\* DoPoliciesAllow returns and builds for the candidate list ps.
SameOutcome(g, ps) ==
    LET o == DoPoliciesAllow(frame[g].r, ps) IN
    /\ frame[g].err = o.err
    /\ frame[g].deciders = o.deciders
    /\ \A n \in AuditCalls(g) : trace[g][n].arg.deciders = o.deciders

\* C9: a candidate on which the Matcher reports no match (on the action,
\* the subject or the resource) is in no deciders list, whatever its
\* conditions and effect, and DoPoliciesAllow returns, and hands to the audit
\* logger as deciders, what it would for the list without that candidate.
C9_NoFalseMatch ==
    \A g \in Goroutines :
        LET f == frame[g]
            Misses(p) == NoMatch(p, f.r)
        IN  Returned(g)
            => /\ \A k \in 1..Len(f.deciders) : ~Misses(f.deciders[k])
               /\ \A n \in AuditCalls(g) :
                     \A k \in 1..Len(trace[g][n].arg.deciders) :
                         ~Misses(trace[g][n].arg.deciders[k])
               /\ \A j \in Positions(f.policies, Misses) :
                     SameOutcome(g, Remove(f.policies, j))

\* DoPoliciesAllow returned nil for a list that holds, before a
\* fully-matching allow policy, a deny policy whose conditions pass but on
\* which the Matcher reports no match.
C9_Witness ==
    \E g \in Goroutines :
        LET f == frame[g] IN
        /\ Returned(g)
        /\ f.err = ReturnedNil
        /\ \E j, k \in 1..Len(f.policies) :
              /\ j < k
              /\ NoMatch(f.policies[j], f.r)
              /\ ConditionsHold(f.policies[j], f.r)
              /\ f.policies[j].Effect = "deny"
              /\ FullAllow(f.policies[k], f.r)

\* ------------------------------------------------------------ C10
\* The patterns of p match and a condition of p is not fulfilled.
ConditionFails(p, r) == PatternsMatch(p, r) /\ ~ConditionsHold(p, r)

\* C10: every decider has all its conditions fulfilled by the request
\* context (an absent key giving the zero value), and a candidate whose
\* patterns match but of which some condition is not fulfilled is skipped
\* without error: DoPoliciesAllow returns, and hands to the audit logger,
\* what it would for the list without it.  So such an allow policy does not
\* lead to nil and such a deny policy does not lead to
\* ErrRequestForcefullyDenied.
C10_ConditionAnd ==
    \A g \in Goroutines :
        LET f == frame[g]
            Gated(p) == ConditionFails(p, f.r)
            GatedDeny(p) == ConditionFails(p, f.r) /\ p.Effect = "deny"
            GatedAllow(p) == ConditionFails(p, f.r) /\ p.Effect = "allow"
        IN  Returned(g)
            => /\ \A k \in 1..Len(f.deciders) : ConditionsHold(f.deciders[k], f.r)
               /\ \A j \in Positions(f.policies, Gated) :
                     SameOutcome(g, Remove(f.policies, j))
               /\ Positions(f.policies, GatedAllow) = DOMAIN f.policies
                  => f.err # ReturnedNil
               /\ Positions(f.policies, GatedDeny) = DOMAIN f.policies
                  => f.err.cause # ErrRequestForcefullyDenied

\* DoPoliciesAllow returned ErrRequestDenied for a list that holds only
\* policies whose patterns match, one of them an allow policy with one
\* condition that passes and one that fails, another a deny policy with a
\* failing condition.
C10_Witness ==
    \E g \in Goroutines :
        LET f == frame[g] IN
        /\ Returned(g)
        /\ f.err = WithStack(ErrRequestDenied)
        /\ \A j \in 1..Len(f.policies) : ConditionFails(f.policies[j], f.r)
        /\ \E j \in 1..Len(f.policies) :
              /\ f.policies[j].Effect = "allow"
              /\ \E key \in Keys :
                    /\ f.policies[j].Conditions[key] # Absent
                    /\ Fulfills(f.policies[j].Conditions[key],
                                ContextValue(f.r, key), f.r)
        /\ \E j \in 1..Len(f.policies) : f.policies[j].Effect = "deny"

\* ------------------------------------------------------------ C11
\* IsAllowed has returned in goroutine g.
IsAllowedReturned(g) == frame[g].entry = "IsAllowed" /\ frame[g].pc = "done"

\* What l.Manager.FindRequestCandidates returned to goroutine g: the
\* candidate list and the error.
Lookup(g) == trace[g][1].arg

\* C11: when IsAllowed has returned after FindRequestCandidates failed, it
\* returned the error of the lookup as it is, and the only calls it made
\* after the lookup is one RequestProcessingError with that error and no
\* policy, in a new goroutine (so no Matcher call, no Condition call); when
\* the lookup gave a candidate list, IsAllowed returned what DoPoliciesAllow
\* returns for the request and that list.
C11_EntryVariant ==
    \A g \in Goroutines :
        IsAllowedReturned(g)
        => /\ Len(trace[g]) >= 1
           /\ trace[g][1].op = "FindRequestCandidates"
           /\ IF Lookup(g).err # NoErr
              THEN /\ frame[g].err = Bare(ErrManager)
                   /\ Len(trace[g]) = 2
                   /\ trace[g][2] = Event("RequestProcessingError", 0, ErrManager, TRUE)
              ELSE LET o == DoPoliciesAllow(frame[g].r, Lookup(g).policies) IN
                   /\ frame[g].err = o.err
                   /\ \A n \in AuditCalls(g) :
                         /\ trace[g][n].arg.policies = Lookup(g).policies
                         /\ trace[g][n].arg.deciders = o.deciders

\* IsAllowed returned the error of a failed lookup, on a Ladon value that
\* was given no collaborator.
C11_Witness ==
    \E g \in Goroutines :
        /\ IsAllowedReturned(g)
        /\ Lookup(g).err = ErrManager
        /\ frame[g].err = Bare(ErrManager)
        /\ ladon[frame[g].l].Metric = "default"

\* IsAllowed returned nil for a candidate list of three that the lookup gave.
C11_WitnessFound ==
    \E g \in Goroutines :
        /\ IsAllowedReturned(g)
        /\ Lookup(g).err = NoErr
        /\ Len(Lookup(g).policies) = 3
        /\ frame[g].err = ReturnedNil

\* ------------------------------------------------------------ C12
\* The Metric calls goroutine g has made.
MetricCalls(g) == CallsOf(trace[g], MetricOps)

\* The Metric method that goes with an outcome of DoPoliciesAllow.
MetricFor(err) ==
    CASE err.cause = Nil -> "RequestAllowedBy"
      [] err.cause = ErrRequestForcefullyDenied -> "RequestDeniedBy"
      [] err.cause = ErrRequestDenied -> "RequestNoMatch"
      [] OTHER -> "RequestProcessingError"

\* C12: an invocation of DoPoliciesAllow never has made more than one Metric
\* call, and when it has returned it has made exactly one, of the kind that
\* goes with what it returned: RequestAllowedBy (with the deciders) for nil,
\* RequestDeniedBy (with the denying policy) for ErrRequestForcefullyDenied,
\* RequestNoMatch for ErrRequestDenied, RequestProcessingError (with the
\* error) for a Matcher error.
C12_MetricAccounting ==
    \A g \in Goroutines :
        LET f == frame[g] IN
        /\ f.fn = "DoPoliciesAllow" => Cardinality(MetricCalls(g)) <= 1
        /\ Returned(g)
           => /\ Cardinality(MetricCalls(g)) = 1
              /\ \A n \in MetricCalls(g) :
                    LET e == trace[g][n] IN
                    /\ e.op = MetricFor(f.err)
                    /\ e.op = "RequestAllowedBy" => e.arg = f.deciders
                    /\ e.op = "RequestDeniedBy"
                          => e.arg = f.deciders[Len(f.deciders)] /\ ~AllowAccess(e.arg)
                    /\ e.op = "RequestProcessingError" => e.arg = f.err.cause

\* DoPoliciesAllow returned ErrRequestForcefullyDenied after two allow
\* policies had been added to deciders, and the one Metric call it made is
\* RequestDeniedBy.
C12_Witness ==
    \E g \in Goroutines :
        /\ Returned(g)
        /\ frame[g].err.cause = ErrRequestForcefullyDenied
        /\ Len(frame[g].deciders) = 3
        /\ \E n \in MetricCalls(g) : trace[g][n].op = "RequestDeniedBy"

\* ------------------------------------------------------------ C13
\* A step changes the activation or the trace of at most one goroutine.
OneCallSteps ==
    \A g, h \in Goroutines :
        (g # h /\ <<frame[g], trace[g]>>' # <<frame[g], trace[g]>>)
        => <<frame[h], trace[h]>>' = <<frame[h], trace[h]>>

\* C13: in every interleaving of DoPoliciesAllow calls running in parallel
\* on one Ladon value, with the same or different requests and candidate
\* lists, a call that has returned has returned, and has handed to the audit
\* logger as deciders, what DoPoliciesAllow returns and builds for its own
\* request and list alone; and no step of one call changes the allowed flag,
\* the deciders or the calls of another.
C13_NoInterference ==
    /\ [](\A g \in Goroutines : Returned(g) => SameOutcome(g, frame[g].policies))
    /\ [][OneCallSteps]_vars

\* A call has returned ErrRequestForcefullyDenied with two deciders while
\* another call on the same Ladon value, with another candidate list, is in
\* its loop after it added a policy to its own deciders.
C13_Witness ==
    \E g, h \in Goroutines :
        /\ g # h
        /\ frame[g].l = frame[h].l
        /\ Returned(g)
        /\ frame[g].err.cause = ErrRequestForcefullyDenied
        /\ Len(frame[g].deciders) = 2
        /\ frame[h].pc = "loop"
        /\ frame[h].policies # frame[g].policies
        /\ Len(frame[h].deciders) = 1

\* ------------------------------------------------------------ C14
\* The calls of ops goroutine g made in its own goroutine: each was over
\* before the next statement ran.
Completed(g, ops) == {n \in CallsOf(trace[g], ops) : ~trace[g][n].go}

\* C14: when DoPoliciesAllow has returned nil, a LogGrantedAccessRequest
\* call was made and is over and LogRejectedAccessRequest was not called;
\* when it has returned ErrRequestForcefullyDenied or ErrRequestDenied, a
\* LogRejectedAccessRequest call was made and is over and
\* LogGrantedAccessRequest was not called; when it has returned any error,
\* LogGrantedAccessRequest was not called.  No audit-log call is made in
\* another goroutine.
C14_AuditVariant ==
    \A g \in Goroutines :
        LET f == frame[g]
            granted == CallsOf(trace[g], {"LogGrantedAccessRequest"})
            rejected == CallsOf(trace[g], {"LogRejectedAccessRequest"})
        IN  /\ Completed(g, AuditOps) = AuditCalls(g)
            /\ Returned(g)
               => /\ f.err = ReturnedNil
                     => Completed(g, {"LogGrantedAccessRequest"}) # {} /\ rejected = {}
                  /\ f.err.cause \in {ErrRequestForcefullyDenied, ErrRequestDenied}
                     => Completed(g, {"LogRejectedAccessRequest"}) # {} /\ granted = {}
                  /\ f.err # ReturnedNil => granted = {}

\* DoPoliciesAllow returned nil, having called LogGrantedAccessRequest and
\* then RequestAllowedBy as its last two calls.
C14_Witness ==
    \E g \in Goroutines :
        /\ Returned(g)
        /\ frame[g].err = ReturnedNil
        /\ Len(trace[g]) >= 2
        /\ trace[g][Len(trace[g]) - 1].op = "LogGrantedAccessRequest"
        /\ ~trace[g][Len(trace[g]) - 1].go
        /\ trace[g][Len(trace[g])].op = "RequestAllowedBy"

\* DoPoliciesAllow returned a Matcher error after an allow policy had fully
\* matched, and no audit-log call was made.
C14_WitnessError ==
    \E g \in Goroutines :
        /\ Returned(g)
        /\ MatcherFailed(g)
        /\ frame[g].allowed
        /\ CallsOf(trace[g], {"LogGrantedAccessRequest"}) = {}

\* ------------------------------------------------------------ C15
\* C15: when the first fully-matching deny policy of the candidate list is
\* at index i and the Matcher fails on no candidate before i, DoPoliciesAllow
\* returns ErrRequestForcefullyDenied, has made no Matcher or Condition call
\* for a candidate after i (a malformed pattern there stays unseen), and has
\* made one audit-log call, LogRejectedAccessRequest, with as deciders the
\* fully-matching allow policies before i in input order and then policy i.
C15_DenyShortCircuit ==
    \A g \in Goroutines :
        LET f == frame[g]
            Denies(p) == FullDeny(p, f.r)
            Allows(p) == FullAllow(p, f.r)
        IN  ( /\ Returned(g)
              /\ Positions(f.policies, Denies) # {}
              /\ \A j \in 1..(Min(Positions(f.policies, Denies)) - 1) :
                    MatchError(f.policies[j], f.r) = NoErr )
            => LET i == Min(Positions(f.policies, Denies)) IN
               /\ f.err = WithStack(ErrRequestForcefullyDenied)
               /\ \A n \in CallsOf(trace[g], {"Matches", "Fulfills"}) :
                     trace[g][n].policy <= i
               /\ Cardinality(AuditCalls(g)) = 1
               /\ \A n \in AuditCalls(g) :
                     /\ trace[g][n].op = "LogRejectedAccessRequest"
                     /\ trace[g][n].arg.deciders
                           = Append(SelectSeq(SubSeq(f.policies, 1, i - 1), Allows),
                                    f.policies[i])

\* DoPoliciesAllow returned ErrRequestForcefullyDenied for a list of a
\* fully-matching allow policy, a fully-matching deny policy with conditions
\* and a policy on which the Matcher would fail.
C15_Witness ==
    \E g \in Goroutines :
        LET f == frame[g] IN
        /\ Returned(g)
        /\ f.err = WithStack(ErrRequestForcefullyDenied)
        /\ Len(f.policies) = 3
        /\ FullAllow(f.policies[1], f.r)
        /\ FullDeny(f.policies[2], f.r)
        /\ GetConditions(f.policies[2]) # {}
        /\ MatchError(f.policies[3], f.r) # NoErr

\* ------------------------------------------------------------ C16
\* The three dimensions, in the order the claim gives.
Dimensions == <<"Actions", "Subjects", "Resources">>

\* What the Matcher says of p and r on dimension d.
MatchOn(p, r, d) ==
    CASE d = 1 -> Matches(p, p.Actions, r.Action)
      [] d = 2 -> Matches(p, p.Subjects, r.Subject)
      [] d = 3 -> Matches(p, p.Resources, r.Resource)

\* C16: in the calls of an invocation, at any time: a Matcher call on the
\* subjects (resources) of a candidate comes right after the Matcher call on
\* its actions (subjects), and every earlier dimension matched; a Condition
\* is evaluated right after the Matcher call on the resources, and all three
\* dimensions matched; a Matcher failure that is reported is the failure of
\* the Matcher call just made, so never one of a dimension that stands
\* behind a dimension that does not match; and the effect decides only for a
\* candidate of which all dimensions match and all conditions pass
\* (RequestDeniedBy, deciders).
C16_CheckOrder ==
    \A g \in Goroutines :
        LET f == frame[g]
            t == trace[g]
        IN  /\ \A n \in CallsOf(t, {"Matches"}) :
                  \A d \in 2..3 :
                      t[n].arg = Dimensions[d]
                      => /\ n > 1
                         /\ t[n - 1] = Event("Matches", t[n].policy, Dimensions[d - 1], FALSE)
                         /\ \A e \in 1..(d - 1) :
                               MatchOn(f.policies[t[n].policy], f.r, e).ok
            /\ \A n \in CallsOf(t, {"Fulfills"}) :
                  /\ n > 1
                  /\ t[n - 1] = Event("Matches", t[n].policy, "Resources", FALSE)
                  /\ \A e \in 1..3 : MatchOn(f.policies[t[n].policy], f.r, e).ok
            /\ \A n \in CallsOf(t, {"RequestProcessingError"}) :
                  t[n].policy # 0
                  => /\ n > 1
                     /\ t[n - 1].op = "Matches"
                     /\ t[n - 1].policy = t[n].policy
                     /\ \E d \in 1..3 :
                           /\ t[n - 1].arg = Dimensions[d]
                           /\ t[n].arg = MatchOn(f.policies[t[n].policy], f.r, d).err
                           /\ t[n].arg # NoErr
            /\ \A n \in CallsOf(t, {"RequestDeniedBy"}) :
                  /\ \A e \in 1..3 : MatchOn(t[n].arg, f.r, e).ok
                  /\ ConditionsHold(t[n].arg, f.r)
            /\ \A k \in 1..Len(f.deciders) :
                  /\ \A e \in 1..3 : MatchOn(f.deciders[k], f.r, e).ok
                  /\ ConditionsHold(f.deciders[k], f.r)

\* DoPoliciesAllow returned without a Matcher error for a list that holds a
\* candidate with malformed subjects of which the action does not match and
\* a candidate with malformed resources, and with conditions, of which the
\* subject does not match.
C16_Witness ==
    \E g \in Goroutines :
        LET f == frame[g] IN
        /\ Returned(g)
        /\ ~MatcherFailed(g)
        /\ CallsOf(trace[g], {"RequestProcessingError"}) = {}
        /\ \E j \in 1..Len(f.policies) :
              /\ ~MatchOn(f.policies[j], f.r, 1).ok
              /\ MatchOn(f.policies[j], f.r, 2).err # NoErr
        /\ \E j \in 1..Len(f.policies) :
              /\ MatchOn(f.policies[j], f.r, 1).ok
              /\ MatchOn(f.policies[j], f.r, 2) = [ok |-> FALSE, err |-> NoErr]
              /\ MatchOn(f.policies[j], f.r, 3).err # NoErr
              /\ GetConditions(f.policies[j]) # {}

\* ------------------------------------------------------------ C17
\* The Matcher calls goroutine g made that failed.
FailedMatches(g) ==
    {n \in CallsOf(trace[g], {"Matches"}) :
        \E d \in 1..3 :
            /\ trace[g][n].arg = Dimensions[d]
            /\ MatchOn(frame[g].policies[trace[g][n].policy], frame[g].r, d).err # NoErr}

\* The error of the Matcher call at position n of the trace of g.
ErrorOf(g, n) ==
    LET d == CHOOSE d \in 1..3 : trace[g][n].arg = Dimensions[d]
    IN  MatchOn(frame[g].policies[trace[g][n].policy], frame[g].r, d).err

\* C17: when DoPoliciesAllow has returned nil, the Matcher was called on
\* every candidate of the list and no call failed; when a Matcher call it
\* made has failed, also after allow policies had fully matched, it returned
\* the error of that call (not nil, not ErrRequestDenied, not
\* ErrRequestForcefullyDenied); and when IsAllowed has returned after the
\* lookup failed, it did not return nil.
C17_ErrorsNeverAllow ==
    \A g \in Goroutines :
        LET f == frame[g] IN
        /\ (Returned(g) /\ f.err = ReturnedNil)
           => /\ FailedMatches(g) = {}
              /\ \A j \in 1..Len(f.policies) :
                    /\ \E n \in CallsOf(trace[g], {"Matches"}) : trace[g][n].policy = j
                    /\ \A d \in 1..3 :
                          (\A e \in 1..(d - 1) : MatchOn(f.policies[j], f.r, e).ok)
                          => MatchOn(f.policies[j], f.r, d).err = NoErr
        /\ (Returned(g) /\ FailedMatches(g) # {})
           => /\ \A n \in FailedMatches(g) : f.err.cause = ErrorOf(g, n)
              /\ f.err.cause \notin {Nil, ErrRequestDenied, ErrRequestForcefullyDenied}
        /\ (IsAllowedReturned(g) /\ Lookup(g).err # NoErr)
           => f.err.cause = Lookup(g).err /\ f.err # ReturnedNil

\* DoPoliciesAllow returned the error of the Matcher on the resources of
\* the third candidate, after two allow policies had fully matched.
C17_Witness ==
    \E g \in Goroutines :
        LET f == frame[g] IN
        /\ Returned(g)
        /\ f.allowed
        /\ Len(f.deciders) = 2
        /\ f.i = 3
        /\ FailedMatches(g) # {}
        /\ f.err = WithStack("[r")

\* ------------------------------------------------------------ C18
\* The permutations of the list ps.
Orderings(ps) ==
    {[k \in 1..Len(ps) |-> ps[pi[k]]] :
        pi \in {q \in [1..Len(ps) -> 1..Len(ps)] :
                    \A j, k \in 1..Len(ps) : q[j] = q[k] => j = k}}

\* C18 as stated: when DoPoliciesAllow has returned and no Matcher call it
\* made has failed, it returns the same kind of outcome for every
\* permutation of its candidate list.
C18_OrderIndependence_AsStated ==
    \A g \in Goroutines :
        (Returned(g) /\ FailedMatches(g) = {})
        => \A qs \in Orderings(frame[g].policies) :
               DoPoliciesAllow(frame[g].r, qs).err.cause = frame[g].err.cause

\* C18, amended: when DoPoliciesAllow has returned and no Matcher call it
\* made has failed: if it returned nil or ErrRequestDenied, it returns the
\* same for every permutation of its candidate list; if it returned
\* ErrRequestForcefullyDenied, it returns the same for every permutation in
\* which no candidate that makes the Matcher fail stands before the first
\* fully-matching deny policy, and the error of the Matcher for the others.
C18_OrderIndependence ==
    \A g \in Goroutines :
        LET f == frame[g] IN
        (Returned(g) /\ FailedMatches(g) = {})
        => \A qs \in Orderings(f.policies) :
               LET o == DoPoliciesAllow(f.r, qs) IN
               IF f.err.cause \in {Nil, ErrRequestDenied} \/ ~FailureReached(qs, f.r)
               THEN o.err = f.err
               ELSE o.err.cause \in Malformed

\* DoPoliciesAllow returned ErrRequestForcefullyDenied for a list of three
\* on which no Matcher call fails in any order, and builds other deciders
\* for a permutation of it.
C18_Witness ==
    \E g \in Goroutines :
        LET f == frame[g] IN
        /\ Returned(g)
        /\ FailedMatches(g) = {}
        /\ f.err = WithStack(ErrRequestForcefullyDenied)
        /\ Len(f.policies) = 3
        /\ \A qs \in Orderings(f.policies) : ~FailureReached(qs, f.r)
        /\ \E qs \in Orderings(f.policies) :
              DoPoliciesAllow(f.r, qs).deciders # f.deciders

\* DoPoliciesAllow returned nil for a list of three of which every
\* permutation puts the allow policy elsewhere.
C18_WitnessGranted ==
    \E g \in Goroutines :
        LET f == frame[g] IN
        /\ Returned(g)
        /\ f.err = ReturnedNil
        /\ Len(f.policies) = 3
        /\ Cardinality(Orderings(f.policies)) = 6

\* ------------------------------------------------------------ consistency
\* The steps of a call and the scan as a function agree on what is returned.
ScanAgrees ==
    \A g \in Goroutines : Returned(g) => SameOutcome(g, frame[g].policies)

====
